------------------------------ MODULE Spec2Model ------------------------------
(***************************************************************************)
(* Model of the POR bytecode decompiler pipeline of src/main.cpp:          *)
(*   decode_script  -> slice_script -> convert_bks_to_fake_logic           *)
(*                  -> make_statements                                     *)
(*                                                                         *)
(* Five specifications share the variables:                                *)
(*   Spec        bytes -> decode_script -> slice_script                    *)
(*   SpecOperand one instruction with an operand -> decode_script          *)
(*   SpecSlice   a script -> slice_script, suppression on and off          *)
(*   SpecRewrite a slice -> convert_bks_to_fake_logic                      *)
(*   SpecEval    a slice -> make_statements                                *)
(* Offsets and indices are 0-based as in the source; TLA+ sequences are    *)
(* 1-based, so the byte at offset k is bytes[k+1].                         *)
(***************************************************************************)
EXTENDS Integers, Sequences, FiniteSets, TLC

VARIABLES
    \* decode_script
    bytes,      \* the byte span handed to decode_script
    fe10,       \* template parameter IsFE10 (dialect A when TRUE)
    i,          \* cursor `i`
    lastJump,   \* `lastJump`, an unsigned: kept as its 32-bit pattern read as int32
    ended,      \* `ended`
    result,     \* `result`, the decoded instructions
    maxRead,    \* highest byte offset read so far (-1: none)
    dstatus,    \* "idle" | "run" | "done" | "err_opcode" | "err_dialect" | "err_operand"
    \* slice_script
    script,     \* the instruction sequence handed to slice_script
    slicePoints,\* `slicePoints`
    scrIt,      \* `scrIt` as a 0-based index into script (Len(script) = end())
    sliceLeft,  \* the slice points `sliceIt` has not passed yet
    slices,     \* the calls result.set(key, {from, to}) in call order
    sstatus,    \* "idle" | "run" | "done"
    ignoreBK,   \* template parameter IgnoreBranchAndKeeps
    \* convert_bks_to_fake_logic
    slice,      \* the mutable slice
    slice0,     \* the slice as given
    ri,         \* loop index `i`
    rstatus,    \* "idle" | "run" | "done"
    \* make_statements
    eslice,     \* the slice handed to make_statements
    epc,        \* number of instructions of eslice already executed
    stmts,      \* `result`, the statement list
    estatus     \* "idle" | "run" | "done" | "throw" | "ub"

decVars == <<bytes, fe10, i, lastJump, ended, result, maxRead, dstatus>>
sliVars == <<script, slicePoints, scrIt, sliceLeft, slices, sstatus, ignoreBK>>
rewVars == <<slice, slice0, ri, rstatus>>
evaVars == <<eslice, epc, stmts, estatus>>
vars == <<decVars, sliVars, rewVars, evaVars>>

-----------------------------------------------------------------------------
(* Bounds *)

\* longest script, in bytes
MaxBytes == 5

\* longest slice handed to convert_bks_to_fake_logic, and the most BKY/BKN in it
MaxSlice == 5

MaxBK == 2

\* longest slice handed to make_statements
MaxEval == 4

\* longest script handed to slice_script on its own, and the most jumps in it
MaxScript == 4

MaxJumps == 2

\* longest script the termination of slice_script is checked on
MaxFairScript == 3

\* longest slice the termination of the rewrite is checked on
MaxFairSlice == 4

\* for the decoding of one operand: the most NOPs before the instruction and
\* the most bytes after it
MaxPad == 1

MaxTail == 2

-----------------------------------------------------------------------------
(* Opcode table (core/por-bytecode.h, not in the source tree): per opcode   *)
(* the operand width, the jump flag and the dialect mask.                   *)

JumpOpcodes == {"B", "BY", "BKY", "BN", "BKN"}

ReturnOpcodes == {"RETURN", "RETN", "RETY"}

DialectAOnly == {"OPCODE_40", "PRINTF", "DUP", "RETN", "RETY", "ASSIGN"}

Width1Opcodes == {"VAL8", "VALX8", "REF8", "REFX8", "GVAL8", "GVALX8", "GREF8",
                  "GREFX8", "NUMBER8", "STRING8", "CALL", "PRINTF"}

Width2Opcodes == {"VAL16", "VALX16", "REF16", "REFX16", "GVAL16", "GVALX16",
                  "GREF16", "GREFX16", "NUMBER16", "STRING16"} \cup JumpOpcodes

Width4Opcodes == {"NUMBER32", "STRING32", "CALLEXT"}

operandSize(op) ==
    IF op \in Width1Opcodes THEN 1
    ELSE IF op \in Width2Opcodes THEN 2
    ELSE IF op \in Width4Opcodes THEN 4
    ELSE 0

isJump(op) == op \in JumpOpcodes

\* Opcode byte values of the bytes the decoder model is fed; every other byte
\* value of ByteAlphabet is no opcode.
OpcodeOf(b) ==
    CASE b = 0   -> "NOP"
      [] b = 3   -> "VALX8"
      [] b = 27  -> "NUMBER32"
      [] b = 55  -> "CALL"
      [] b = 57  -> "RETURN"
      [] b = 58  -> "B"
      [] b = 67  -> "RETN"
      [] OTHER   -> "INVALID"

\* ins.valid<IsFE10>()
valid(op, isFE10) ==
    /\ op # "INVALID"
    /\ (isFE10 \/ op \notin DialectAOnly)

\* The byte values scripts are drawn from: opcodes, small displacements and
\* 0xFF (top bit set; as a high displacement byte it makes the jump backward).
ByteAlphabet == {0, 3, 55, 57, 58, 67, 255}

-----------------------------------------------------------------------------
(* Integer helpers *)

RECURSIVE SeqsUpTo(_, _)
SeqsUpTo(S, n) ==
    IF n = 0 THEN {<<>>}
    ELSE LET shorter == SeqsUpTo(S, n - 1)
         IN shorter \cup {Append(s, x) : s \in {t \in shorter : Len(t) = n - 1}, x \in S}

\* decode_int_be: result = *begin++ + (result << 8), in uint32.  For four
\* bytes the value is returned as the int32 with the same bit pattern (the
\* assignment to ins.operand), computed without leaving 32 bits.
RECURSIVE decode_int_be(_)
decode_int_be(bs) ==
    IF Len(bs) = 0 THEN 0
    ELSE IF Len(bs) = 4
         THEN (IF bs[1] >= 128 THEN bs[1] - 256 ELSE bs[1]) * 16777216
              + decode_int_be(Tail(bs))
         ELSE bs[Len(bs)] + 256 * decode_int_be(SubSeq(bs, 1, Len(bs) - 1))

\* sign_extend returning the value as it is
sign_extend_Mut(value, bits) == value

\* sign_extend: (value << rbits) >> rbits with rbits = 32 - bits
sign_extend(value, bits) ==
    IF bits >= 32 THEN value
    ELSE LET low == value % (2 ^ bits)
         IN IF low >= 2 ^ (bits - 1) THEN low - 2 ^ bits ELSE low

\* Unsigned comparison of two 32-bit patterns held as int32.
ULess(a, b) ==
    IF (a < 0) = (b < 0) THEN a < b ELSE b < 0

\* std::max on unsigned
UMax(a, b) == IF ULess(a, b) THEN b ELSE a


-----------------------------------------------------------------------------
(* decode_script *)

Ins(loc, op, operand) == [location |-> loc, opcode |-> op, operand |-> operand]

\* bytes[k] for a 0-based offset k.  An offset outside the span is an
\* out-of-range read: the value read is unspecified (junk).
ByteAt(k, junk) == IF k >= 0 /\ k < Len(bytes) THEN bytes[k + 1] ELSE junk

\* OperandTruncated testing that fewer than w bytes remain
OperandTruncated_Fewer(pos, w) == pos + w > Len(bytes)

\* OperandTruncated testing only that the script has not ended
OperandTruncated_Mut(pos, w) == pos >= Len(bytes)

\* `i + ins.info().operandSize >= bytes.size()` with i already past the opcode
OperandTruncated(pos, w) == pos + w >= Len(bytes)

\* decode_int_be over [pos, pos + w) followed by sign_extend to w*8 bits
ReadOperand(pos, w, junk) ==
    sign_extend(decode_int_be([k \in 1..w |-> ByteAt(pos + k - 1, junk)]), w * 8)

\* `IsFE10 && ins.opcode == BC_OPCODE_CALL` and `ins.operand & 0x80`
IsExtendedCall(op, operand) ==
    /\ fe10
    /\ op = "CALL"
    /\ (operand % 256) >= 128

\* ExtendedOperand without the `& 0x7F`
ExtendedOperand_Mut(operand, next) == (operand * 256) + next

\* ((ins.operand & 0x7F) << 8) + bytes[i++]
ExtendedOperand(operand, next) == ((operand % 128) * 256) + next

\* ins.operand = i + ins.operand - ins.info().operandSize
JumpTarget(cursor, operand, w) == cursor + operand - w

\* `i > lastJump`, both unsigned
ReturnEnds(cursor, lj) == ULess(lj, cursor)

\* One pass of the loop body for a valid opcode whose operand is present:
\* the instruction pushed, the cursor after it, lastJump, ended and the
\* highest offset read.
DecodeOne(loc, junk) ==
    LET op   == OpcodeOf(ByteAt(loc, junk))
        w    == operandSize(op)
        pos  == loc + 1
        raw  == IF w > 0 THEN ReadOperand(pos, w, junk) ELSE 0
        ext  == w > 0 /\ IsExtendedCall(op, raw)
        opnd == IF ext THEN ExtendedOperand(raw, ByteAt(pos + w, junk)) ELSE raw
        cur  == pos + w + (IF ext THEN 1 ELSE 0)
        fin  == IF isJump(op) THEN JumpTarget(cur, opnd, w) ELSE opnd
    IN [ins      |-> Ins(loc, op, fin),
        cursor   |-> cur,
        lastJump |-> IF isJump(op) THEN UMax(lastJump, fin) ELSE lastJump,
        ended    |-> op \in ReturnOpcodes /\ ReturnEnds(cur, lastJump),
        hiRead   |-> cur - 1]

\* The values an out-of-range read may deliver; a single value when every
\* offset the pass reads lies inside the span.
Junk(loc) ==
    IF DecodeOne(loc, 0).hiRead < Len(bytes) THEN {0} ELSE ByteAlphabet

Looping == dstatus = "run" /\ ~ended /\ i < Len(bytes)

\* throw "Invalid opcode."
DecodeInvalid ==
    /\ Looping
    /\ ~valid(OpcodeOf(bytes[i + 1]), fe10)
    /\ ~valid(OpcodeOf(bytes[i + 1]), TRUE)
    /\ i' = i + 1
    /\ maxRead' = IF i > maxRead THEN i ELSE maxRead
    /\ dstatus' = "err_opcode"
    /\ UNCHANGED <<bytes, fe10, lastJump, ended, result>>
    /\ UNCHANGED <<sliVars, rewVars, evaVars>>

\* throw "Invalid FE9 opcode (only valid in FE10)."
DecodeWrongDialect ==
    /\ Looping
    /\ ~valid(OpcodeOf(bytes[i + 1]), fe10)
    /\ valid(OpcodeOf(bytes[i + 1]), TRUE)
    /\ i' = i + 1
    /\ maxRead' = IF i > maxRead THEN i ELSE maxRead
    /\ dstatus' = "err_dialect"
    /\ UNCHANGED <<bytes, fe10, lastJump, ended, result>>
    /\ UNCHANGED <<sliVars, rewVars, evaVars>>

\* throw "Reached end of script when expecting operand."
DecodeTruncated ==
    /\ Looping
    /\ valid(OpcodeOf(bytes[i + 1]), fe10)
    /\ operandSize(OpcodeOf(bytes[i + 1])) > 0
    /\ OperandTruncated(i + 1, operandSize(OpcodeOf(bytes[i + 1])))
    /\ i' = i + 1
    /\ maxRead' = IF i > maxRead THEN i ELSE maxRead
    /\ dstatus' = "err_operand"
    /\ UNCHANGED <<bytes, fe10, lastJump, ended, result>>
    /\ UNCHANGED <<sliVars, rewVars, evaVars>>

\* result.push_back(ins)
DecodeIns ==
    /\ Looping
    /\ valid(OpcodeOf(bytes[i + 1]), fe10)
    /\ \/ operandSize(OpcodeOf(bytes[i + 1])) = 0
       \/ ~OperandTruncated(i + 1, operandSize(OpcodeOf(bytes[i + 1])))
    /\ \E junk \in Junk(i) :
          LET d == DecodeOne(i, junk)
          IN /\ result' = Append(result, d.ins)
             /\ i' = d.cursor
             /\ lastJump' = d.lastJump
             /\ ended' = d.ended
             /\ maxRead' = IF d.hiRead > maxRead THEN d.hiRead ELSE maxRead
    /\ UNCHANGED <<bytes, fe10, dstatus>>
    /\ UNCHANGED <<sliVars, rewVars, evaVars>>

\* the while condition fails: return result
DecodeFinish ==
    /\ dstatus = "run"
    /\ (ended \/ i >= Len(bytes))
    /\ dstatus' = "done"
    /\ UNCHANGED <<bytes, fe10, i, lastJump, ended, result, maxRead>>
    /\ UNCHANGED <<sliVars, rewVars, evaVars>>

-----------------------------------------------------------------------------
(* slice_script *)

\* the default of the template parameter, which main uses
IgnoreBranchAndKeeps == TRUE

\* SlicePointsOf without the insertion of the jump targets
SlicePointsOf_Mut(scr, ignore) ==
    LET counted(x) == ~(ignore /\ x.opcode \in {"BKN", "BKY"})
        idx == {k \in 1..Len(scr) : counted(scr[k])}
    IN   {scr[k].location + 1 + operandSize(scr[k].opcode) :
              k \in {n \in idx : isJump(scr[n].opcode)}}
    \cup {scr[k].location + 1 : k \in {n \in idx : scr[n].opcode = "RETURN"}}

\* Step 1: the std::set<std::size_t> of slice points.  A negative int
\* converted to size_t is kept as the negative int and ordered by ULess.
SlicePointsOf(scr, ignore) ==
    LET counted(x) == ~(ignore /\ x.opcode \in {"BKN", "BKY"})
        idx == {k \in 1..Len(scr) : counted(scr[k])}
    IN   {scr[k].location + 1 + operandSize(scr[k].opcode) :
              k \in {n \in idx : isJump(scr[n].opcode)}}
    \cup {scr[k].operand : k \in {n \in idx : isJump(scr[n].opcode)}}
    \cup {scr[k].location + 1 : k \in {n \in idx : scr[n].opcode = "RETURN"}}

\* *sliceIt: the least element of the ordered set
FirstPoint(S) == CHOOSE p \in S : \A q \in S : p = q \/ ULess(p, q)

\* PointsAfter leaving sliceIt where it is
PointsAfter_Mut(S) == S

\* the `++` of `*sliceIt++`: the points after the least one
PointsAfter(S) == S \ {FirstPoint(S)}

\* std::find_if(itStart, script.end(), ins.location >= sliceOffset), as an index
FindIf(scr, from, sliceOffset) ==
    LET hits == {k \in from..(Len(scr) - 1) : ~ULess(scr[k + 1].location, sliceOffset)}
    IN IF hits = {} THEN Len(scr)
       ELSE CHOOSE k \in hits : \A m \in hits : k <= m

\* SliceEntry keyed by the index of the first instruction
SliceEntry_Mut(scr, itStart, next) == [key |-> itStart, from |-> itStart, to |-> next]

\* result.set(itStart->location, { itStart, scrIt })
SliceEntry(scr, itStart, next) ==
    [key |-> scr[itStart + 1].location, from |-> itStart, to |-> next]

SliceStart ==
    /\ dstatus = "done"
    /\ sstatus = "idle"
    /\ script' = result
    /\ slicePoints' = SlicePointsOf(result, ignoreBK)
    /\ sliceLeft' = SlicePointsOf(result, ignoreBK)
    /\ scrIt' = 0
    /\ slices' = <<>>
    /\ sstatus' = "run"
    /\ UNCHANGED ignoreBK
    /\ UNCHANGED <<decVars, rewVars, evaVars>>

\* One pass of `while (scrIt != script.end())`
SliceCut ==
    /\ sstatus = "run"
    /\ scrIt # Len(script)
    /\ LET itStart == scrIt
           next == IF sliceLeft # {}
                   THEN FindIf(script, itStart, FirstPoint(sliceLeft))
                   ELSE Len(script)
       IN /\ scrIt' = next
          /\ sliceLeft' = IF sliceLeft # {} THEN PointsAfter(sliceLeft)
                          ELSE sliceLeft
          /\ slices' = Append(slices, SliceEntry(script, itStart, next))
    /\ UNCHANGED <<script, slicePoints, sstatus, ignoreBK>>
    /\ UNCHANGED <<decVars, rewVars, evaVars>>

SliceFinish ==
    /\ sstatus = "run"
    /\ scrIt = Len(script)
    /\ sstatus' = "done"
    /\ UNCHANGED <<script, slicePoints, scrIt, sliceLeft, slices, ignoreBK>>
    /\ UNCHANGED <<decVars, rewVars, evaVars>>

-----------------------------------------------------------------------------
(* Specification of the decode and slice stages *)

RewIdle == slice = <<>> /\ slice0 = <<>> /\ ri = 0 /\ rstatus = "idle"

EvaIdle == eslice = <<>> /\ epc = 0 /\ stmts = <<>> /\ estatus = "idle"

DecIdle ==
    /\ bytes = <<>> /\ fe10 = TRUE /\ i = 0 /\ lastJump = 0 /\ ended = FALSE
    /\ result = <<>> /\ maxRead = -1 /\ dstatus = "idle"

SliIdle ==
    /\ script = <<>> /\ slicePoints = {} /\ scrIt = 0 /\ sliceLeft = {}
    /\ slices = <<>> /\ sstatus = "idle" /\ ignoreBK = IgnoreBranchAndKeeps

Init ==
    /\ bytes \in SeqsUpTo(ByteAlphabet, MaxBytes)
    /\ fe10 \in BOOLEAN
    /\ i = 0 /\ lastJump = 0 /\ ended = FALSE
    /\ result = <<>> /\ maxRead = -1 /\ dstatus = "run"
    /\ SliIdle /\ RewIdle /\ EvaIdle

Next ==
    \/ DecodeInvalid
    \/ DecodeWrongDialect
    \/ DecodeTruncated
    \/ DecodeIns
    \/ DecodeFinish
    \/ SliceStart
    \/ SliceCut
    \/ SliceFinish

Spec == Init /\ [][Next]_vars

-----------------------------------------------------------------------------
(* decode_script on one instruction with an operand, of each width *)

\* the opcode bytes of VALX8, NUMBER32, CALL and B
OperandOpcodes == {3, 27, 55, 58}

\* operand bytes: zero, small, largest positive, smallest and largest with
\* the top bit set
OperandBytes == {0, 1, 127, 128, 255}

\* bytes after the instruction: NOP, RETN, no opcode
TailBytes == {0, 67, 255}

InitOperand ==
    /\ \E pad \in SeqsUpTo({0}, MaxPad) :
       \E opc \in OperandOpcodes :
       \E body \in [1..operandSize(OpcodeOf(opc)) -> OperandBytes] :
       \E tail \in SeqsUpTo(TailBytes, MaxTail) :
           bytes = pad \o <<opc>> \o body \o tail
    /\ fe10 \in BOOLEAN
    /\ i = 0 /\ lastJump = 0 /\ ended = FALSE
    /\ result = <<>> /\ maxRead = -1 /\ dstatus = "run"
    /\ SliIdle /\ RewIdle /\ EvaIdle

NextOperand ==
    \/ DecodeInvalid
    \/ DecodeWrongDialect
    \/ DecodeTruncated
    \/ DecodeIns
    \/ DecodeFinish

SpecOperand == InitOperand /\ [][NextOperand]_vars

-----------------------------------------------------------------------------
(* convert_bks_to_fake_logic / get_bks_as_fake_logic *)

BKOpcodes == {"BKN", "BKY"}

\* Swap copying slice[b] over slice[a] only
Swap_Mut(s, a, b) == [k \in 1..Len(s) |-> IF k = a + 1 THEN s[b + 1] ELSE s[k]]

\* std::swap(slice[a], slice[b]) for 0-based a, b
Swap(s, a, b) ==
    [k \in 1..Len(s) |-> IF k = a + 1 THEN s[b + 1]
                         ELSE IF k = b + 1 THEN s[a + 1]
                         ELSE s[k]]

\* while (j < slice.size() && slice[j].location != target)
\*     { std::swap(slice[j-1], slice[j]); j++; }
RECURSIVE Sweep(_, _, _)
Sweep(s, j, target) ==
    IF j < Len(s) /\ s[j + 1].location # target
    THEN Sweep(Swap(s, j - 1, j), j + 1, target)
    ELSE [slice |-> s, j |-> j]

\* FakeOp with the two results exchanged
FakeOp_Mut(op) == IF op = "BKN" THEN "FAKE_LORR" ELSE "FAKE_LAND"

\* (op == BC_OPCODE_BKN) ? BC_FAKEOP_LAND : BC_FAKEOP_LORR
FakeOp(op) == IF op = "BKN" THEN "FAKE_LAND" ELSE "FAKE_LORR"

\* PutFake writing at index j instead of j-1
PutFake_Mut(s, j, op) ==
    [k \in 1..Len(s) |->
        IF k = j + 1 THEN [s[k] EXCEPT !.opcode = FakeOp(op), !.operand = 0] ELSE s[k]]

\* slice[j-1].opcode = ...; slice[j-1].operand = 0;
PutFake(s, j, op) ==
    [s EXCEPT ![j] = [@ EXCEPT !.opcode = FakeOp(op), !.operand = 0]]

\* The index the for loop visits after a BKY/BKN at index k: the `i++` of
\* `slice[i++].operand` and then the loop's own `++i`.
AfterBK(k) == k + 2

\* One pass of `for (i = 0; i < slice.size(); ++i)`
RewriteStep ==
    /\ rstatus = "run"
    /\ ri < Len(slice)
    /\ LET op == slice[ri + 1].opcode
       IN IF op \in BKOpcodes
          THEN LET target == slice[ri + 1].operand
                   sw == Sweep(slice, ri + 1, target)
               IN /\ slice' = PutFake(sw.slice, sw.j, op)
                  /\ ri' = AfterBK(ri)
          ELSE /\ slice' = slice
               /\ ri' = ri + 1
    /\ UNCHANGED <<slice0, rstatus>>
    /\ UNCHANGED <<decVars, sliVars, evaVars>>

\* return slice
RewriteFinish ==
    /\ rstatus = "run"
    /\ ri >= Len(slice)
    /\ rstatus' = "done"
    /\ UNCHANGED <<slice, slice0, ri>>
    /\ UNCHANGED <<decVars, sliVars, evaVars>>

\* The slices the rewrite is run on: VAL8, BKN and BKY in any order, possibly
\* ended by a BN, laid out from offset 0 with the table's widths; a BKY/BKN
\* targets any instruction of the slice, the offset after the slice, or
\* offset 1 (inside the first instruction).
RewriteOps ==
    {ops \in SeqsUpTo({"VAL8", "BKN", "BKY", "BN"}, MaxSlice) :
        /\ \A k \in 1..(Len(ops) - 1) : ops[k] # "BN"
        /\ Cardinality({k \in 1..Len(ops) : ops[k] \in BKOpcodes}) <= MaxBK}

RECURSIVE LocAfter(_, _)
LocAfter(ops, k) ==
    IF k = 0 THEN 0 ELSE LocAfter(ops, k - 1) + 1 + operandSize(ops[k])

\* The offsets a BKY/BKN of the slice may target.
Targets(ops) == {LocAfter(ops, k) : k \in 0..Len(ops)} \cup {1}

\* The slice with opcodes ops, whose k-th instruction, when a BKY/BKN,
\* targets tg[k].
Layouts(ops, tg) ==
    [k \in 1..Len(ops) |->
        Ins(LocAfter(ops, k - 1), ops[k],
            IF ops[k] \in BKOpcodes THEN tg[k]
            ELSE IF ops[k] = "BN" THEN LocAfter(ops, Len(ops)) + 4
            ELSE 0)]

\* the shorter slices the termination of the rewrite is checked on
FairRewriteOps == {ops \in RewriteOps : Len(ops) <= MaxFairSlice}

InitRewriteOn(opsSet) ==
    /\ \E ops \in opsSet :
        \E tg \in [{k \in 1..Len(ops) : ops[k] \in BKOpcodes} -> Targets(ops)] :
            slice0 = Layouts(ops, tg)
    /\ slice = slice0
    /\ ri = 0
    /\ rstatus = "run"
    /\ DecIdle /\ SliIdle /\ EvaIdle

InitRewrite == InitRewriteOn(RewriteOps)

InitRewriteFair == InitRewriteOn(FairRewriteOps)

NextRewrite ==
    \/ RewriteStep
    \/ RewriteFinish

SpecRewrite == InitRewrite /\ [][NextRewrite]_vars

\* the rewrite runs to its return: the loop is not suspended between passes
SpecRewriteFair == InitRewriteFair /\ [][NextRewrite]_vars /\ WF_vars(NextRewrite)

-----------------------------------------------------------------------------
(* slice_script on its own, in both instantiations of IgnoreBranchAndKeeps *)

\* The scripts slice_script is run on: B, BKN, RETURN and RETN laid out
\* from offset 0 with the table's widths, at most MaxJumps of them jumps.
SliceOps ==
    {ops \in SeqsUpTo({"B", "BKN", "RETURN", "RETN"}, MaxScript) :
        Cardinality({k \in 1..Len(ops) : isJump(ops[k])}) <= MaxJumps}

\* The targets a jump of the script may have: every instruction, the end of
\* the script, offset 1 and an offset before the script.
SliceTargets(ops) == {LocAfter(ops, k) : k \in 0..Len(ops)} \cup {1, -1}

SliceLayout(ops, tg) ==
    [k \in 1..Len(ops) |->
        Ins(LocAfter(ops, k - 1), ops[k], IF isJump(ops[k]) THEN tg[k] ELSE 0)]

\* the shorter scripts the termination of slice_script is checked on
FairSliceOps == {ops \in SliceOps : Len(ops) <= MaxFairScript}

InitSliceOn(opsSet) ==
    /\ \E ops \in opsSet :
        \E tg \in [{k \in 1..Len(ops) : isJump(ops[k])} -> SliceTargets(ops)] :
            script = SliceLayout(ops, tg)
    /\ ignoreBK \in BOOLEAN
    /\ slicePoints = SlicePointsOf(script, ignoreBK)
    /\ sliceLeft = slicePoints
    /\ scrIt = 0
    /\ slices = <<>>
    /\ sstatus = "run"
    /\ DecIdle /\ RewIdle /\ EvaIdle

InitSlice == InitSliceOn(SliceOps)

InitSliceFair == InitSliceOn(FairSliceOps)

NextSlice ==
    \/ SliceCut
    \/ SliceFinish

SpecSlice == InitSlice /\ [][NextSlice]_vars

\* slice_script runs to its return: the loop is not suspended between passes
SpecSliceFair == InitSliceFair /\ [][NextSlice]_vars /\ WF_vars(NextSlice)

-----------------------------------------------------------------------------
(* Expr and Stmt *)

MkExpr(kind, literal, named, children) ==
    [kind |-> kind, literal |-> literal, named |-> named, children |-> children]

make_unique_intlit(value) == MkExpr("IntLiteral", value, "", <<>>)

make_unique_strlit(value) == MkExpr("StrLiteral", 0, value, <<>>)

make_unique_identifier(value) == MkExpr("Named", 0, value, <<>>)

make_unique_unop(kind, inner) == MkExpr(kind, 0, "", <<inner>>)

make_unique_binop(kind, lexpr, rexpr) == MkExpr(kind, 0, "", <<lexpr, rexpr>>)

MkStmt(kind, children) == [kind |-> kind, children |-> children]

make_push(inner) == MkStmt("Push", <<inner>>)

\* "label_" + std::to_string(target)
LabelName(target) == "label_" \o ToString(target)

make_goto(target) == MkStmt("Goto", <<make_unique_identifier(LabelName(target))>>)

make_goto_if(target, truth) ==
    MkStmt("GotoIf", <<make_unique_identifier(LabelName(target)), truth>>)

make_yield == MkStmt("Yield", <<>>)

make_return(inner) == MkStmt("Return", <<inner>>)

-----------------------------------------------------------------------------
(* The script container make_statements reads: the scene's variable names, *)
(* the global names, the scenes and the string pool (one entry per byte,   *)
(* "" for NUL).                                                            *)

VarNames == <<"var_0", "var_1">>

GlobalNames == <<"glob_0">>

Scenes == <<[name |-> "unk_0", argCnt |-> 2], [name |-> "main", argCnt |-> 0]>>

StrPool == <<"", "a", "", "l", "o", "g", "">>

\* operator[] of a vector with an int index: inside the vector or not
InRange(index, table) == index >= 0 /\ index < Len(table)

\* ScriptInfo::get_cstr: `offset >= strpool.size()` on the unsigned offset
BadOffset(offset) == offset < 0 \/ offset >= Len(StrPool)

\* the NUL-terminated string at 0-based offset
RECURSIVE CStr(_)
CStr(offset) ==
    IF offset >= Len(StrPool) \/ StrPool[offset + 1] = "" THEN ""
    ELSE StrPool[offset + 1] \o CStr(offset + 1)

-----------------------------------------------------------------------------
(* make_statements *)

Ok(st) == [res |-> "ok", stmts |-> st]

Throw == [res |-> "throw", stmts |-> <<>>]

\* an access outside a vector: undefined behaviour
Undefined == [res |-> "ub", stmts |-> <<>>]

Back(st) == st[Len(st)]

SetBack(st, stmt) == [st EXCEPT ![Len(st)] = stmt]

PopBack(st) == SubSeq(st, 1, Len(st) - 1)

\* the two tests of expect_push
ExpectPush(st) ==
    /\ Len(st) >= 1
    /\ Back(st).kind = "Push"

\* ExpectPushPush testing that the statement below the top has one child
\* instead of testing its kind
ExpectPushPush_Mut(st) ==
    /\ Len(st) >= 2
    /\ Back(st).kind = "Push"
    /\ Len(st[Len(st) - 1].children) = 1

\* the three tests of expect_push_push
ExpectPushPush(st) ==
    /\ Len(st) >= 2
    /\ Back(st).kind = "Push"
    /\ st[Len(st) - 1].kind = "Push"

\* the two tests of call; argCnt is unsigned, so a negative int is huge
ExpectArgs(st, argCnt) ==
    /\ argCnt >= 0
    /\ Len(st) >= argCnt
    /\ \A k \in (Len(st) - argCnt + 1)..Len(st) : st[k].kind = "Push"

\* back.kind = kind
Rekind(st, kind) == SetBack(st, [Back(st) EXCEPT !.kind = kind])

\* back.children[0] = f(std::move(back.children[0])) under expect_push
unop(st, kind) ==
    IF ExpectPush(st)
    THEN Ok(SetBack(st, make_push(make_unique_unop(kind, Back(st).children[1]))))
    ELSE Throw

\* binop with the two operands exchanged
binop_Mut(st, kind) ==
    IF ExpectPushPush(st)
    THEN LET lexpr == st[Len(st) - 1].children[1]
             rexpr == Back(st).children[1]
         IN Ok(Append(PopBack(PopBack(st)),
                      make_push(make_unique_binop(kind, rexpr, lexpr))))
    ELSE Throw

\* the lambda binop: expect_push_push, two pop_back and one push_back
binop(st, kind) ==
    IF ExpectPushPush(st)
    THEN LET lexpr == st[Len(st) - 1].children[1]
             rexpr == Back(st).children[1]
         IN Ok(Append(PopBack(PopBack(st)),
                      make_push(make_unique_binop(kind, lexpr, rexpr))))
    ELSE Throw

call(st, funcname, argCnt) ==
    IF ExpectArgs(st, argCnt)
    THEN LET first == Len(st) - argCnt
             callexpr == MkExpr("Func", 0, funcname,
                                [k \in 1..argCnt |-> st[first + k].children[1]])
         IN Ok(Append(SubSeq(st, 1, first), make_push(callexpr)))
    ELSE Throw

\* ThenExpr leaving the statement as the binop or call made it
ThenExpr_Mut(r) == r

\* `result.back().kind = Stmt::Kind::Expr` after a binop or call that returned
ThenExpr(r) == IF r.res = "ok" THEN Ok(Rekind(r.stmts, "Expr")) ELSE r

\* make_unique_copy without the loop over the children
make_unique_copy_Mut(expr) == MkExpr(expr.kind, expr.literal, expr.named, <<>>)

\* Expr::make_unique_copy: a new node with the same kind, literal and name,
\* and a copy of every child
RECURSIVE make_unique_copy(_)
make_unique_copy(expr) ==
    MkExpr(expr.kind, expr.literal, expr.named,
           [k \in 1..Len(expr.children) |-> make_unique_copy(expr.children[k])])

AddrofNamed(name) == make_unique_unop("Addrof", make_unique_identifier(name))

\* the VAL / VALX / REF / REFX patterns over a name table
NameOp(st, family, table, operand) ==
    IF ~InRange(operand, table) THEN
        IF family \in {"VALX", "REFX"} /\ ~ExpectPush(st) THEN Throw ELSE Undefined
    ELSE LET name == table[operand + 1]
         IN CASE family = "VAL" -> Ok(Append(st, make_push(make_unique_identifier(name))))
              [] family = "REF" -> Ok(Append(st, make_push(AddrofNamed(name))))
              [] family = "VALX" ->
                    IF ExpectPush(st)
                    THEN Ok(SetBack(st, make_push(
                            make_unique_unop("Deref",
                                make_unique_binop("Add", AddrofNamed(name),
                                                  Back(st).children[1])))))
                    ELSE Throw
              [] family = "REFX" ->
                    IF ExpectPush(st)
                    THEN Ok(SetBack(st, make_push(
                            make_unique_binop("Add", AddrofNamed(name),
                                              Back(st).children[1]))))
                    ELSE Throw

BinopKind(op) ==
    CASE op = "STORE" -> "Assign" [] op = "ADD" -> "Add" [] op = "SUB" -> "Sub"
      [] op = "MUL" -> "Mul" [] op = "DIV" -> "Div" [] op = "MOD" -> "Mod"
      [] op = "ORR" -> "Or" [] op = "AND" -> "And" [] op = "XOR" -> "Xor"
      [] op = "LSL" -> "Lsl" [] op = "LSR" -> "Lsr" [] op = "EQ" -> "Eq"
      [] op = "NE" -> "Ne" [] op = "LT" -> "Lt" [] op = "LE" -> "Le"
      [] op = "GT" -> "Gt" [] op = "GE" -> "Ge" [] op = "EQSTR" -> "EqStr"
      [] op = "NESTR" -> "NeStr" [] op = "FAKE_LAND" -> "LogicalAnd"
      [] op = "FAKE_LORR" -> "LogicalOr"

BinaryOpcodes ==
    {"STORE", "ADD", "SUB", "MUL", "DIV", "MOD", "ORR", "AND", "XOR", "LSL", "LSR",
     "EQ", "NE", "LT", "LE", "GT", "GE", "EQSTR", "NESTR", "FAKE_LAND", "FAKE_LORR"}

UnopKind(op) ==
    CASE op = "NEG" -> "Neg" [] op = "NOT" -> "Not" [] op = "MVN" -> "BitwiseNot"

\* ExecDisc leaving the statement a Push
ExecDisc_Mut(st) == IF ExpectPush(st) THEN Ok(st) ELSE Throw

\* case BC_OPCODE_DISC
ExecDisc(st) == IF ExpectPush(st) THEN Ok(Rekind(st, "Expr")) ELSE Throw

\* ExecReturn appending a Return statement instead of converting the Push
ExecReturn_Mut(st) ==
    IF ExpectPush(st) THEN Ok(Append(st, make_return(Back(st).children[1]))) ELSE Throw

\* case BC_OPCODE_RETURN
ExecReturn(st) == IF ExpectPush(st) THEN Ok(Rekind(st, "Return")) ELSE Throw

\* case BC_OPCODE_DEREF
ExecDeref(st) ==
    IF ExpectPush(st)
    THEN Ok(Append(st, make_push(make_unique_unop("Deref",
                                     make_unique_copy(Back(st).children[1])))))
    ELSE Throw

\* case BC_OPCODE_DUP
ExecDup(st) ==
    IF ExpectPush(st)
    THEN Ok(Append(st, make_push(make_unique_copy(Back(st).children[1]))))
    ELSE Throw

\* ExecBranchIf popping the statement below the top one as well
ExecBranchIf_Mut(st, target, negate) ==
    IF ExpectPush(st)
    THEN LET expr == Back(st).children[1]
         IN Ok(Append(PopBack(PopBack(st)),
                      make_goto_if(target,
                          IF negate THEN make_unique_unop("Not", expr) ELSE expr)))
    ELSE Throw

\* case BC_OPCODE_BN / BC_OPCODE_BY
ExecBranchIf(st, target, negate) ==
    IF ExpectPush(st)
    THEN LET expr == Back(st).children[1]
         IN Ok(Append(PopBack(st),
                      make_goto_if(target,
                          IF negate THEN make_unique_unop("Not", expr) ELSE expr)))
    ELSE Throw

\* case BC_OPCODE_CALL
ExecCall(st, operand) ==
    IF InRange(operand, Scenes)
    THEN call(st, Scenes[operand + 1].name, Scenes[operand + 1].argCnt)
    ELSE Undefined

\* case BC_OPCODE_CALLEXT: get_cstr(operand >> 8) is evaluated before call
ExecCallExt(st, operand) ==
    IF BadOffset(operand \div 256) THEN Throw
    ELSE call(st, CStr(operand \div 256), operand % 256)

\* case BC_OPCODE_STRING8/16/32
ExecString(st, operand) ==
    IF BadOffset(operand) THEN Throw
    ELSE Ok(Append(st, make_push(make_unique_strlit(CStr(operand)))))

\* the switch of make_statements on one instruction
Exec(st, ins) ==
    LET op == ins.opcode
    IN CASE op \in {"NOP", "OPCODE_40"} -> Ok(st)
         [] op \in {"VAL8", "VAL16"} -> NameOp(st, "VAL", VarNames, ins.operand)
         [] op \in {"VALX8", "VALX16"} -> NameOp(st, "VALX", VarNames, ins.operand)
         [] op \in {"REF8", "REF16"} -> NameOp(st, "REF", VarNames, ins.operand)
         [] op \in {"REFX8", "REFX16"} -> NameOp(st, "REFX", VarNames, ins.operand)
         [] op \in {"GVAL8", "GVAL16"} -> NameOp(st, "VAL", GlobalNames, ins.operand)
         [] op \in {"GVALX8", "GVALX16"} -> NameOp(st, "VALX", GlobalNames, ins.operand)
         [] op \in {"GREF8", "GREF16"} -> NameOp(st, "REF", GlobalNames, ins.operand)
         [] op \in {"GREFX8", "GREFX16"} -> NameOp(st, "REFX", GlobalNames, ins.operand)
         [] op \in {"NUMBER8", "NUMBER16", "NUMBER32"} ->
                Ok(Append(st, make_push(make_unique_intlit(ins.operand))))
         [] op \in {"STRING8", "STRING16", "STRING32"} -> ExecString(st, ins.operand)
         [] op = "DEREF" -> ExecDeref(st)
         [] op = "DISC" -> ExecDisc(st)
         [] op = "ASSIGN" -> ThenExpr(binop(st, "Assign"))
         [] op \in BinaryOpcodes -> binop(st, BinopKind(op))
         [] op \in {"NEG", "NOT", "MVN"} -> unop(st, UnopKind(op))
         [] op = "CALL" -> ExecCall(st, ins.operand)
         [] op = "CALLEXT" -> ExecCallExt(st, ins.operand)
         [] op = "PRINTF" -> ThenExpr(call(st, "__printf", ins.operand))
         [] op = "RETURN" -> ExecReturn(st)
         [] op = "B" -> Ok(Append(st, make_goto(ins.operand)))
         [] op = "BN" -> ExecBranchIf(st, ins.operand, TRUE)
         [] op = "BY" -> ExecBranchIf(st, ins.operand, FALSE)
         [] op = "YIELD" -> Ok(Append(st, make_yield))
         [] op = "DUP" -> ExecDup(st)
         [] op = "RETN" -> Ok(Append(st, make_return(make_unique_intlit(0))))
         [] op = "RETY" -> Ok(Append(st, make_return(make_unique_intlit(1))))
         [] OTHER -> Throw

\* One pass of `for (auto& ins : slice)` that completes
EvalIns ==
    /\ estatus = "run"
    /\ epc < Len(eslice)
    /\ Exec(stmts, eslice[epc + 1]).res = "ok"
    /\ stmts' = Exec(stmts, eslice[epc + 1]).stmts
    /\ epc' = epc + 1
    /\ UNCHANGED <<eslice, estatus>>
    /\ UNCHANGED <<decVars, sliVars, rewVars>>

\* One pass that throws: make_statements returns nothing
EvalThrow ==
    /\ estatus = "run"
    /\ epc < Len(eslice)
    /\ Exec(stmts, eslice[epc + 1]).res = "throw"
    /\ stmts' = <<>>
    /\ estatus' = "throw"
    /\ UNCHANGED <<eslice, epc>>
    /\ UNCHANGED <<decVars, sliVars, rewVars>>

\* One pass that indexes a vector outside its bounds
EvalUndefined ==
    /\ estatus = "run"
    /\ epc < Len(eslice)
    /\ Exec(stmts, eslice[epc + 1]).res = "ub"
    /\ stmts' = <<>>
    /\ estatus' = "ub"
    /\ UNCHANGED <<eslice, epc>>
    /\ UNCHANGED <<decVars, sliVars, rewVars>>

\* return result
EvalFinish ==
    /\ estatus = "run"
    /\ epc = Len(eslice)
    /\ estatus' = "done"
    /\ UNCHANGED <<eslice, epc, stmts>>
    /\ UNCHANGED <<decVars, sliVars, rewVars>>

\* The instructions the evaluated slices are drawn from; location is not
\* read by make_statements.  VAL8 2 indexes past the scene's two variables,
\* CALL 0 takes two arguments, CALLEXT 0x302 is "log" with two arguments.
EvalAlphabet ==
    {Ins(0, "NUMBER8", 2), Ins(0, "VAL8", 2), Ins(0, "NOT", 0), Ins(0, "DUP", 0),
     Ins(0, "DISC", 0), Ins(0, "ADD", 0), Ins(0, "ASSIGN", 0), Ins(0, "BN", 14),
     Ins(0, "YIELD", 0), Ins(0, "CALL", 0), Ins(0, "PRINTF", 1), Ins(0, "CALLEXT", 770)}

\* A second family of instructions: assignments, copies and returns over
\* two distinct literals and the address of var_0.
EvalAlphabet2 ==
    {Ins(0, "REF8", 0), Ins(0, "NUMBER8", 2), Ins(0, "NUMBER8", 3),
     Ins(0, "STORE", 0), Ins(0, "ASSIGN", 0), Ins(0, "DUP", 0), Ins(0, "DEREF", 0),
     Ins(0, "NOT", 0), Ins(0, "RETURN", 0), Ins(0, "RETN", 0), Ins(0, "RETY", 0)}

InitEval ==
    /\ \E alphabet \in {EvalAlphabet, EvalAlphabet2} :
          eslice \in SeqsUpTo(alphabet, MaxEval)
    /\ epc = 0
    /\ stmts = <<>>
    /\ estatus = "run"
    /\ DecIdle /\ SliIdle /\ RewIdle

NextEval ==
    \/ EvalIns
    \/ EvalThrow
    \/ EvalUndefined
    \/ EvalFinish

SpecEval == InitEval /\ [][NextEval]_vars

-----------------------------------------------------------------------------
(* Properties of convert_bks_to_fake_logic (SpecRewrite) *)

\* C1: the sequence returned by convert_bks_to_fake_logic contains no
\* instruction whose opcode is BKY or BKN.
C1_NoBranchAndKeepRemains ==
    rstatus = "done" => \A k \in 1..Len(slice) : slice[k].opcode \notin BKOpcodes

\* index k of s holds a BKY/BKN whose target is the location of an
\* instruction that follows it in s
TargetFollows(s, k) == \E m \in (k + 1)..Len(s) : s[m].location = s[k].operand

\* C6: a slice holding a BKY/BKN whose target is not the location of an
\* instruction that follows it in the slice is rejected with an error, so
\* the rewrite never returns for such a slice.
C6_StrayTargetIsRejected ==
    rstatus = "done" =>
        \A k \in 1..Len(slice0) : slice0[k].opcode \in BKOpcodes => TargetFollows(slice0, k)

-----------------------------------------------------------------------------
(* Properties of decode_script and slice_script (Spec) *)

Last(s) == s[Len(s)]

Max(S) == CHOOSE x \in S : \A y \in S : y <= x

Min(S) == CHOOSE x \in S : \A y \in S : x <= y

\* the largest non-negative jump target among the instructions of s (0: none)
MaxNonNegTarget(s) ==
    Max({0} \cup {s[k].operand : k \in {n \in 1..Len(s) : isJump(s[n].opcode)
                                                           /\ s[n].operand >= 0}})

\* C3: after a RETURN, RETN or RETY decoding stops exactly when the cursor
\* just past it is strictly greater than the largest non-negative jump
\* target decoded so far.
C3_ReturnEndsDecoding ==
    (dstatus \in {"run", "done"} /\ result # <<>> /\ Last(result).opcode \in ReturnOpcodes)
        => (ended <=> i > MaxNonNegTarget(result))

\* C4: every decoded instruction lies inside the script together with its
\* operand: location + 1 + operand width <= script length (an input that
\* would break this ends in the truncated-operand error and adds nothing).
C4_OperandInsideScript ==
    \A k \in 1..Len(result) :
        result[k].location + 1 + operandSize(result[k].opcode) <= Len(bytes)

\* an instruction with an operand was decoded as close to the end of the
\* script as the decoder allows, and a truncated operand was refused
C4_Witness ==
    /\ dstatus = "done"
    /\ \E k \in 1..Len(result) :
          /\ operandSize(result[k].opcode) = 2
          /\ result[k].location + 1 + operandSize(result[k].opcode) = Len(bytes) - 1

Locations(s) == {s[k].location : k \in 1..Len(s)}

\* C5: in the sequence decode_script returns, every jump's operand is the
\* location of an instruction of the sequence or the end-of-script offset.
C5_JumpTargetsOnInstructions ==
    dstatus = "done" =>
        \A k \in 1..Len(result) :
            isJump(result[k].opcode) =>
                result[k].operand \in Locations(result) \cup {i, Len(bytes)}

\* C7: the truncated-operand error is raised if and only if fewer than w
\* bytes remain after the opcode byte.  In the error state i is the cursor
\* past the opcode byte; while decoding, i is at the opcode byte.
C7_TruncatedIffTooShort ==
    /\ dstatus = "err_operand" =>
          Len(bytes) - i < operandSize(OpcodeOf(bytes[i]))
    /\ (Looping /\ valid(OpcodeOf(bytes[i + 1]), fe10)
           /\ Len(bytes) - (i + 1) < operandSize(OpcodeOf(bytes[i + 1])))
          => OperandTruncated(i + 1, operandSize(OpcodeOf(bytes[i + 1])))

\* the location of the instruction decoded after result[k]; the cursor for
\* the last one
NextLocation(k) == IF k < Len(result) THEN result[k + 1].location ELSE i

\* C8: in dialect A a CALL whose first operand byte b is <= 0x7F has operand
\* b and occupies 2 bytes; with b >= 0x80 followed by c it has operand
\* ((b & 0x7F) << 8) | c, in 0..0x7FFF, and occupies 3 bytes.
C8_VariableLengthCall ==
    (fe10 /\ dstatus \in {"run", "done"}) =>
        \A k \in 1..Len(result) :
            result[k].opcode = "CALL" =>
                LET loc == result[k].location
                    b == bytes[loc + 2]
                IN IF b <= 127
                   THEN /\ result[k].operand = b
                        /\ NextLocation(k) = loc + 2
                   ELSE /\ result[k].operand = (b - 128) * 256 + bytes[loc + 3]
                        /\ result[k].operand \in 0..32767
                        /\ NextLocation(k) = loc + 3

\* CALL 0xFF 0x00 decoded to 0x7F00 with the cursor 3 bytes on, and a CALL
\* with the one-byte operand 3 in the same script
C8_Witness ==
    /\ fe10
    /\ dstatus = "done"
    /\ \E k \in 1..Len(result) :
          /\ result[k].opcode = "CALL"
          /\ result[k].operand = 32512
          /\ NextLocation(k) = result[k].location + 3
    /\ \E k \in 1..Len(result) : result[k].opcode = "CALL" /\ result[k].operand = 3

\* C10: a B, BY or BN whose target is neither the location of a decoded
\* instruction nor the end of the script makes the pipeline report a
\* slicing error, so slice_script never returns slices for such a script.
C10_MisalignedTargetIsRejected ==
    sstatus = "done" =>
        \A k \in 1..Len(script) :
            script[k].opcode \in {"B", "BY", "BN"} =>
                script[k].operand \in Locations(script) \cup {i, Len(bytes)}

-----------------------------------------------------------------------------
(* Properties of make_statements (SpecEval) *)

PushCount(st) == Cardinality({k \in 1..Len(st) : st[k].kind = "Push"})

\* the net arity of one instruction
NetArity(ins) ==
    LET op == ins.opcode
    IN CASE op \in {"VAL8", "VAL16", "REF8", "REF16", "GVAL8", "GVAL16", "GREF8",
                    "GREF16", "NUMBER8", "NUMBER16", "NUMBER32", "STRING8",
                    "STRING16", "STRING32", "DEREF", "DUP"} -> 1
         [] op = "ASSIGN" -> -2
         [] op \in BinaryOpcodes \cup {"DISC", "RETURN", "BN", "BY"} -> -1
         [] op = "CALL" -> 1 - Scenes[ins.operand + 1].argCnt
         [] op = "CALLEXT" -> 1 - (ins.operand % 256)
         [] op = "PRINTF" -> 0 - ins.operand
         [] OTHER -> 0

RECURSIVE SumArity(_, _)
SumArity(s, n) == IF n = 0 THEN 0 ELSE SumArity(s, n - 1) + NetArity(s[n])

\* C2: while make_statements has not failed, the number of Push statements
\* equals the sum of the net arities of the instructions executed, and that
\* sum was never negative after any prefix.
C2_PushCountIsNetArity ==
    estatus \in {"run", "done"} =>
        /\ PushCount(stmts) = SumArity(eslice, epc)
        /\ \A n \in 0..epc : SumArity(eslice, n) >= 0

\* a completed slice with producers, a consumer of two and a call, ending
\* with one Push left next to a non-Push statement
C2_Witness ==
    /\ estatus = "done"
    /\ Len(eslice) = MaxEval
    /\ \E k \in 1..Len(eslice) : NetArity(eslice[k]) = -2
    /\ PushCount(stmts) = 1
    /\ Len(stmts) = 2

\* the number of Push statements an instruction needs on top of the list
Required(ins) ==
    LET op == ins.opcode
    IN CASE op \in {"NEG", "NOT", "MVN", "VALX8", "VALX16", "REFX8", "REFX16",
                    "GVALX8", "GVALX16", "GREFX8", "GREFX16", "DISC", "RETURN",
                    "BN", "BY", "DEREF", "DUP"} -> 1
         [] op \in BinaryOpcodes \cup {"ASSIGN"} -> 2
         [] op = "CALL" /\ InRange(ins.operand, Scenes) -> Scenes[ins.operand + 1].argCnt
         [] op = "CALLEXT" -> ins.operand % 256
         [] op = "PRINTF" /\ ins.operand >= 0 -> ins.operand
         [] OTHER -> 0

\* the last n statements exist and are all Push
TopArePush(st, n) ==
    /\ Len(st) >= n
    /\ \A k \in 1..Len(st) : k > Len(st) - n => st[k].kind = "Push"

\* C9: a consuming opcode that does not find the Push statements it needs
\* directly on top of the list makes make_statements fail and return no
\* statement list, also when Push statements lie below a non-Push one.
C9_ConsumerNeedsPushes ==
    [][(estatus = "run" /\ epc < Len(eslice)
            /\ ~TopArePush(stmts, Required(eslice[epc + 1])))
          => (estatus' = "throw" /\ stmts' = <<>>)]_vars

\* ADD failed on [Push, Yield, Push]: the statement below the top is no
\* Push although a Push lies below it
C9_Witness ==
    /\ estatus = "throw"
    /\ epc = 3
    /\ eslice[1].opcode = "NUMBER8"
    /\ eslice[2].opcode = "YIELD"
    /\ eslice[3].opcode = "NUMBER8"
    /\ eslice[4].opcode = "ADD"

\* the expression Assign(a, b)
AssignExpr(a, b) == [kind |-> "Assign", literal |-> 0, named |-> "", children |-> <<a, b>>]

\* C11: with Push(a), Push(b) on top (a pushed first), STORE replaces them by
\* one Push statement holding Assign(a, b) and ASSIGN replaces them by one
\* Expr statement holding Assign(a, b); the statements below are kept.
C11_StoreKeepsAssignDiscards ==
    [][(estatus = "run" /\ epc < Len(eslice)
            /\ eslice[epc + 1].opcode \in {"STORE", "ASSIGN"}
            /\ TopArePush(stmts, 2))
          => LET n == Len(stmts)
                 a == stmts[n - 1].children[1]
                 b == stmts[n].children[1]
                 kind == IF eslice[epc + 1].opcode = "STORE" THEN "Push" ELSE "Expr"
             IN /\ estatus' = "run"
                /\ epc' = epc + 1
                /\ stmts' = Append(SubSeq(stmts, 1, n - 2),
                                   [kind |-> kind, children |-> <<AssignExpr(a, b)>>])]_vars

\* REF8 0, NUMBER8 3, STORE, NOT: the value STORE left on the stack was
\* consumed by NOT
C11_Witness ==
    /\ estatus = "done"
    /\ Len(eslice) = 4
    /\ eslice[3].opcode = "STORE"
    /\ eslice[4].opcode = "NOT"
    /\ Len(stmts) = 1
    /\ stmts[1].kind = "Push"
    /\ stmts[1].children[1].kind = "Not"
    /\ stmts[1].children[1].children[1].kind = "Assign"
    /\ stmts[1].children[1].children[1].children[1].kind = "Addrof"
    /\ stmts[1].children[1].children[1].children[2].literal = 3

\* a and b are the same tree: same kind, literal and name, and the same
\* children in the same order, recursively
RECURSIVE SameTree(_, _)
SameTree(a, b) ==
    /\ a.kind = b.kind
    /\ a.literal = b.literal
    /\ a.named = b.named
    /\ Len(a.children) = Len(b.children)
    /\ \A k \in 1..Len(a.children) : SameTree(a.children[k], b.children[k])

\* C12: DUP and DEREF on a top Push leave every statement as it was and
\* append a Push holding a copy of the top expression (DUP) or Deref of such
\* a copy (DEREF), the copy being the same tree as the original; a unop or
\* binop changes only the statements it consumes, so rewriting the copy
\* leaves the original as it was.
C12_CopyIsEqualAndSeparate ==
    [][(estatus = "run" /\ epc < Len(eslice))
          => LET op == eslice[epc + 1].opcode
                 n == Len(stmts)
             IN /\ (op \in {"DUP", "DEREF"} /\ TopArePush(stmts, 1))
                      => /\ estatus' = "run"
                         /\ Len(stmts') = n + 1
                         /\ SubSeq(stmts', 1, n) = stmts
                         /\ stmts'[n + 1].kind = "Push"
                         /\ Len(stmts'[n + 1].children) = 1
                         /\ IF op = "DUP"
                            THEN SameTree(stmts'[n + 1].children[1], stmts[n].children[1])
                            ELSE /\ stmts'[n + 1].children[1].kind = "Deref"
                                 /\ Len(stmts'[n + 1].children[1].children) = 1
                                 /\ SameTree(stmts'[n + 1].children[1].children[1],
                                             stmts[n].children[1])
                /\ (op \in {"NEG", "NOT", "MVN"} /\ estatus' = "run")
                      => SubSeq(stmts', 1, n - 1) = SubSeq(stmts, 1, n - 1)
                /\ (op \in BinaryOpcodes /\ estatus' = "run")
                      => SubSeq(stmts', 1, n - 2) = SubSeq(stmts, 1, n - 2)]_vars

\* NUMBER8 2, NOT, DUP, NOT: the tree Not(2) was copied, the copy was then
\* rewritten to Not(Not(2)) and the original is still Not(2)
C12_Witness ==
    /\ estatus = "done"
    /\ Len(eslice) = 4
    /\ eslice[3].opcode = "DUP"
    /\ eslice[4].opcode = "NOT"
    /\ Len(stmts) = 2
    /\ stmts[1].children[1].kind = "Not"
    /\ stmts[1].children[1].children[1].kind = "IntLiteral"
    /\ stmts[2].children[1].kind = "Not"
    /\ SameTree(stmts[2].children[1].children[1], stmts[1].children[1])

\* the expression IntLiteral(v)
IntLit(v) == [kind |-> "IntLiteral", literal |-> v, named |-> "", children |-> <<>>]

\* the statement Return(e)
ReturnOf(e) == [kind |-> "Return", children |-> <<e>>]

\* C13: RETURN turns the top Push into a Return with the same expression
\* and appends nothing; RETN and RETY append Return(IntLiteral(0)) and
\* Return(IntLiteral(1)) and leave every earlier statement as it was.  So
\* NUMBER8 2, NUMBER8 3, ADD, RETURN ends as Return(Add(2, 3)) alone and the
\* slice RETN as Return(IntLiteral(0)) alone.
C13_ReturnConvertsRetnAppends ==
    [][/\ (estatus = "run" /\ epc < Len(eslice))
          => LET op == eslice[epc + 1].opcode
                 n == Len(stmts)
             IN /\ (op = "RETURN" /\ TopArePush(stmts, 1))
                      => /\ estatus' = "run"
                         /\ stmts' = [stmts EXCEPT ![n] = ReturnOf(stmts[n].children[1])]
                /\ op = "RETN"
                      => /\ estatus' = "run"
                         /\ stmts' = Append(stmts, ReturnOf(IntLit(0)))
                /\ op = "RETY"
                      => /\ estatus' = "run"
                         /\ stmts' = Append(stmts, ReturnOf(IntLit(1)))
       /\ (estatus' = "done" /\ eslice = <<Ins(0, "RETN", 0)>>)
          => stmts' = <<ReturnOf(IntLit(0))>>
       /\ (estatus' = "done"
             /\ eslice = <<Ins(0, "NUMBER8", 2), Ins(0, "NUMBER8", 3),
                           Ins(0, "ADD", 0), Ins(0, "RETURN", 0)>>)
          => stmts' = <<ReturnOf([kind |-> "Add", literal |-> 0, named |-> "",
                                  children |-> <<IntLit(2), IntLit(3)>>])>>]_vars

\* NUMBER8 2, RETN, NUMBER8 3, RETURN: RETN left the pending Push(2) alone,
\* RETURN converted Push(3)
C13_Witness ==
    /\ estatus = "done"
    /\ eslice = <<Ins(0, "NUMBER8", 2), Ins(0, "RETN", 0),
                  Ins(0, "NUMBER8", 3), Ins(0, "RETURN", 0)>>
    /\ stmts = <<[kind |-> "Push", children |-> <<IntLit(2)>>],
                 ReturnOf(IntLit(0)), ReturnOf(IntLit(3))>>

-----------------------------------------------------------------------------
(* Properties of slice_script (Spec) *)

IsNonEmpty(e) == e.from < e.to

\* the non-empty slices in the order slice_script stored them
NonEmptySlices == SelectSeq(slices, IsNonEmpty)

\* the instructions of the first n entries of es, one after the other
RECURSIVE Concat(_, _)
Concat(es, n) ==
    IF n = 0 THEN <<>>
    ELSE Concat(es, n - 1) \o SubSeq(script, es[n].from + 1, es[n].to)

\* C14: the non-empty slices are contiguous subranges, each starting where
\* the one before ended, stored under strictly increasing keys, each key the
\* location of the slice's first instruction; one after the other they are
\* the instructions sliced so far, and the whole script once slice_script
\* has returned.
C14_SlicesPartitionScript ==
    sstatus \in {"run", "done"} =>
        LET ne == NonEmptySlices
        IN /\ \A k \in 1..Len(ne) :
                 /\ 0 <= ne[k].from /\ ne[k].to <= Len(script)
                 /\ ne[k].from = (IF k = 1 THEN 0 ELSE ne[k - 1].to)
                 /\ ne[k].key = script[ne[k].from + 1].location
                 /\ k > 1 => ne[k - 1].key < ne[k].key
           /\ Concat(ne, Len(ne)) = SubSeq(script, 1, scrIt)
           /\ sstatus = "done" => Concat(ne, Len(ne)) = script

\* a script cut into at least two non-empty slices, with an empty slice
\* stored on the way
C14_Witness ==
    /\ sstatus = "done"
    /\ Len(NonEmptySlices) >= 2
    /\ Len(slices) > Len(NonEmptySlices)
    /\ Len(script) >= 3

\* the instructions that contribute slice points as jumps
CutsAsJump(x) ==
    \/ x.opcode \in {"B", "BY", "BN"}
    \/ (~ignoreBK /\ x.opcode \in {"BKY", "BKN"})

\* the slice points: after and at the target of every such jump, and after
\* every RETURN
PointsOfScript ==
    LET jumps == {k \in 1..Len(script) : CutsAsJump(script[k])}
        rets == {k \in 1..Len(script) : script[k].opcode = "RETURN"}
    IN   {script[k].location + 1 + operandSize(script[k].opcode) : k \in jumps}
    \cup {script[k].operand : k \in jumps}
    \cup {script[k].location + 1 : k \in rets}

\* the indices of the first instruction and of the first instruction at or
\* after each slice point
ExpectedBegins ==
    LET atOrAfter(p) == {k \in 1..Len(script) : script[k].location >= p}
    IN {1} \cup {Min(atOrAfter(p)) : p \in {q \in PointsOfScript : atOrAfter(q) # {}}}

\* the indices of the instructions that begin a non-empty slice
Begins == {NonEmptySlices[k].from + 1 : k \in 1..Len(NonEmptySlices)}

\* C15: the instructions that begin a slice are exactly the first one and,
\* for every slice point, the first one at or after it; BKY/BKN contribute
\* points only when suppression is off, RETN/RETY never.  So each B, BY, BN
\* and RETURN ends its slice and each of their targets that is an
\* instruction begins one.
C15_SlicesBeginAtSlicePoints ==
    (sstatus = "done" /\ script # <<>>) =>
        /\ Begins = ExpectedBegins
        /\ \A k \in 1..(Len(script) - 1) :
              (CutsAsJump(script[k]) \/ script[k].opcode = "RETURN") => (k + 1) \in Begins
        /\ \A k \in 1..Len(script) : \A m \in 1..Len(script) :
              (CutsAsJump(script[k]) /\ script[k].operand = script[m].location)
                  => m \in Begins

\* default mode: a BKN in the middle of a slice and a B whose target, the
\* instruction after a RETN, begins a slice
C15_Witness ==
    /\ sstatus = "done"
    /\ ignoreBK
    /\ \E k \in 1..(Len(script) - 1) :
          script[k].opcode = "BKN" /\ (k + 1) \notin Begins
    /\ \E k \in 1..Len(script) : \E m \in 2..Len(script) :
          /\ script[k].opcode = "B"
          /\ script[k].operand = script[m].location
          /\ script[m - 1].opcode = "RETN"
          /\ m \in Begins

-----------------------------------------------------------------------------
(* Further properties of convert_bks_to_fake_logic (SpecRewrite) *)

\* the indices of s that hold a BKY or BKN
BKIndices(s) == {k \in 1..Len(s) : s[k].opcode \in {"BKY", "BKN"}}

\* C16: for a slice whose only BKY/BKN is at index k and targets the
\* location of the instruction at index t > k, the returned slice holds the
\* original instructions k+1..t-1 at k..t-2 in their order, then at t-1
\* FAKE_LAND (for BKN) or FAKE_LORR (for BKY) with operand 0 and the BKY/BKN's
\* location, and is unchanged below k and from t on.
C16_SingleBranchAndKeepRewrite ==
    (rstatus = "done" /\ Cardinality(BKIndices(slice0)) = 1) =>
        \A k \in BKIndices(slice0) : \A t \in (k + 1)..Len(slice0) :
            slice0[t].location = slice0[k].operand =>
                /\ Len(slice) = Len(slice0)
                /\ \A m \in 1..Len(slice0) :
                      slice[m] =
                          IF m < k \/ m >= t THEN slice0[m]
                          ELSE IF m < t - 1 THEN slice0[m + 1]
                          ELSE [location |-> slice0[k].location,
                                opcode |-> IF slice0[k].opcode = "BKN" THEN "FAKE_LAND"
                                           ELSE "FAKE_LORR",
                                operand |-> 0]

\* VAL8@0, BKN@2 -> 7, VAL8@5, BN@7 -> 14 returned as VAL8@0, VAL8@5,
\* FAKE_LAND@2, BN@7 -> 14
C16_Witness ==
    /\ rstatus = "done"
    /\ slice0 = <<Ins(0, "VAL8", 0), Ins(2, "BKN", 7), Ins(5, "VAL8", 0), Ins(7, "BN", 14)>>
    /\ slice = <<Ins(0, "VAL8", 0), Ins(5, "VAL8", 0), Ins(2, "FAKE_LAND", 0), Ins(7, "BN", 14)>>

\* the index of s that holds the instruction located at loc
IndexAt(s, loc) == CHOOSE p \in 1..Len(s) : s[p].location = loc

NotBK(x) == x.opcode \notin {"BKY", "BKN"}

\* x is located where the given slice holds an instruction other than BKY/BKN
WasNotBK(x) == \E m \in 1..Len(slice0) : slice0[m].location = x.location /\ NotBK(slice0[m])

\* C17: the slice being rewritten always has the length of the given one
\* and holds the same locations, each once; the instructions that were not
\* BKY/BKN are unchanged and in the same relative order; an instruction that
\* was a BKY/BKN is unchanged or has become FAKE_LAND (BKN) / FAKE_LORR (BKY)
\* with operand 0; the slice that was given is never modified.
C17_RewriteIsPermutation ==
    /\ [](rstatus \in {"run", "done"} =>
            /\ Len(slice) = Len(slice0)
            /\ Cardinality({slice[p].location : p \in 1..Len(slice)}) = Len(slice)
            /\ SelectSeq(slice, WasNotBK) = SelectSeq(slice0, NotBK)
            /\ \A p \in 1..Len(slice) :
                  WasNotBK(slice[p]) \/
                      \E m \in BKIndices(slice0) :
                          \/ slice[p] = slice0[m]
                          \/ slice[p] = [location |-> slice0[m].location,
                                         opcode |-> IF slice0[m].opcode = "BKN"
                                                    THEN "FAKE_LAND" ELSE "FAKE_LORR",
                                         operand |-> 0])
    /\ [][slice0' = slice0]_vars

\* a returned slice in which two BKY/BKN were rewritten, one of them moved
\* past other instructions, and a third instruction kept its place
C17_Witness ==
    /\ rstatus = "done"
    /\ Cardinality(BKIndices(slice0)) = 2
    /\ BKIndices(slice) = {}
    /\ \E m \in BKIndices(slice0) : IndexAt(slice, slice0[m].location) > m + 1
    /\ \E m \in 1..Len(slice0) : slice[m] = slice0[m]

-----------------------------------------------------------------------------
(* Further properties of make_statements (SpecEval) *)

\* the name of the function a call instruction calls
CalleeName(ins) ==
    CASE ins.opcode = "CALL" -> Scenes[ins.operand + 1].name
      [] ins.opcode = "CALLEXT" -> CStr(ins.operand \div 256)
      [] ins.opcode = "PRINTF" -> "__printf"

\* the instruction is a call whose callee and argument count are defined
IsCall(ins) ==
    \/ ins.opcode = "CALL" /\ InRange(ins.operand, Scenes)
    \/ ins.opcode = "CALLEXT" /\ ~BadOffset(ins.operand \div 256)
    \/ ins.opcode = "PRINTF" /\ ins.operand >= 0

\* C18: a binary opcode on [.., Push(l), Push(r)] (l pushed earlier) leaves
\* [.., Push(Binary(K, l, r))], l the first child and r the second; CALL,
\* CALLEXT and PRINTF with n arguments on [.., Push(c1), .., Push(cn)] leave a
\* statement holding Func with children c1..cn in push order; the statements
\* below the consumed ones keep kind, expression and position.
C18_ChildrenInPushOrder ==
    [][(estatus = "run" /\ epc < Len(eslice))
          => LET ins == eslice[epc + 1]
                 n == Len(stmts)
                 argc == Required(ins)
             IN /\ (ins.opcode \in BinaryOpcodes /\ TopArePush(stmts, 2))
                      => /\ estatus' = "run"
                         /\ Len(stmts') = n - 1
                         /\ SubSeq(stmts', 1, n - 2) = SubSeq(stmts, 1, n - 2)
                         /\ stmts'[n - 1].kind = "Push"
                         /\ stmts'[n - 1].children =
                                <<[kind |-> BinopKind(ins.opcode), literal |-> 0,
                                   named |-> "",
                                   children |-> <<stmts[n - 1].children[1],
                                                  stmts[n].children[1]>>]>>
                /\ (IsCall(ins) /\ TopArePush(stmts, argc))
                      => /\ estatus' = "run"
                         /\ Len(stmts') = n - argc + 1
                         /\ SubSeq(stmts', 1, n - argc) = SubSeq(stmts, 1, n - argc)
                         /\ stmts'[n - argc + 1].children =
                                <<[kind |-> "Func", literal |-> 0,
                                   named |-> CalleeName(ins),
                                   children |-> [j \in 1..argc |->
                                                    stmts[n - argc + j].children[1]]]>>]_vars

\* NUMBER8 2, NOT, NUMBER8 2, CALL 0: unk_0(!2, 2), the argument pushed
\* first being the first child
C18_Witness ==
    /\ estatus = "done"
    /\ Len(eslice) = 4
    /\ eslice[4].opcode = "CALL"
    /\ Len(stmts) = 1
    /\ stmts[1].kind = "Push"
    /\ stmts[1].children[1].kind = "Func"
    /\ stmts[1].children[1].named = "unk_0"
    /\ Len(stmts[1].children[1].children) = 2
    /\ stmts[1].children[1].children[1].kind = "Not"
    /\ stmts[1].children[1].children[2].kind = "IntLiteral"

-----------------------------------------------------------------------------
(* Properties of the operand decoding (SpecOperand) *)

\* the bytes bs read big-endian as a two's-complement integer of Len(bs) bytes
RECURSIVE UnsignedBE(_)
UnsignedBE(bs) ==
    IF bs = <<>> THEN 0 ELSE UnsignedBE(SubSeq(bs, 1, Len(bs) - 1)) * 256 + bs[Len(bs)]

SignedBE(bs) ==
    (IF bs[1] >= 128 THEN bs[1] - 256 ELSE bs[1]) * (256 ^ (Len(bs) - 1))
        + UnsignedBE(Tail(bs))

\* the instruction is a dialect-A CALL whose first operand byte has the top
\* bit set
IsLongCall(ins) ==
    fe10 /\ ins.opcode = "CALL" /\ bytes[ins.location + 2] >= 128

\* C19: for every decoded instruction of operand width w in {1, 2, 4} other
\* than a dialect-A extended CALL, the operand is the w operand bytes read
\* big-endian as a signed w-byte integer d; for a jump at location L the
\* operand is L + 1 + d.
C19_OperandIsSignedBigEndian ==
    \A k \in 1..Len(result) :
        LET ins == result[k]
            w == operandSize(ins.opcode)
            d == SignedBE(SubSeq(bytes, ins.location + 2, ins.location + 1 + w))
        IN (w \in {1, 2, 4} /\ ~IsLongCall(ins)) =>
               ins.operand = (IF isJump(ins.opcode) THEN ins.location + 1 + d ELSE d)

\* a B at location 1 with the displacement bytes 0xFF 0x80 (-128) decoded to
\* the target -126
C19_Witness ==
    /\ dstatus = "done"
    /\ \E k \in 1..Len(result) :
          /\ result[k] = Ins(1, "B", -126)
          /\ bytes[3] = 255
          /\ bytes[4] = 128

-----------------------------------------------------------------------------
(* The high-water mark of decode_script (Spec) *)

\* C20: the high-water mark is the maximum of the jump targets taken as
\* signed integers, so a negative target does not raise it, and a RETURN,
\* RETN or RETY whose following cursor exceeds every non-negative target
\* ends decoding.
C20_HighWaterMarkIsSignedMax ==
    dstatus \in {"run", "done"} =>
        /\ lastJump = MaxNonNegTarget(result)
        /\ (result # <<>> /\ Last(result).opcode \in ReturnOpcodes
               /\ i > MaxNonNegTarget(result)) => ended

IsNonPush(stmt) == stmt.kind # "Push"

\* the index of the last statement of st that is no Push (0: none)
LastNonPush(st) == Max({0} \cup {k \in 1..Len(st) : IsNonPush(st[k])})

\* s is a prefix of t
IsPrefix(s, t) == Len(s) <= Len(t) /\ SubSeq(t, 1, Len(s)) = s

\* C21: a step of make_statements that completes leaves every statement up
\* to the last non-Push one in place and unchanged: it only appends, or
\* consumes or rewrites Push statements that lie after it.  So the non-Push
\* statements only grow at the end, in the order of their instructions.
C21_NonPushStatementsAreStable ==
    [][(estatus = "run" /\ estatus' = "run")
          => /\ IsPrefix(SubSeq(stmts, 1, LastNonPush(stmts)), stmts')
             /\ IsPrefix(SelectSeq(stmts, IsNonPush), SelectSeq(stmts', IsNonPush))
             /\ Len(SelectSeq(stmts', IsNonPush)) <= Len(SelectSeq(stmts, IsNonPush)) + 1]_vars

\* after [Push, Yield] a Push was appended and discarded: Push, Yield, Expr
C21_Witness ==
    /\ estatus = "done"
    /\ Len(eslice) = 4
    /\ eslice[2].opcode = "YIELD"
    /\ eslice[4].opcode = "DISC"
    /\ Len(stmts) = 3
    /\ stmts[1].kind = "Push"
    /\ stmts[2].kind = "Yield"
    /\ stmts[3].kind = "Expr"

\* the table an instruction indexes with its operand (<<>>: none)
TableOf(ins) ==
    CASE ins.opcode \in {"VAL8", "VAL16", "VALX8", "VALX16",
                         "REF8", "REF16", "REFX8", "REFX16"} -> VarNames
      [] ins.opcode \in {"GVAL8", "GVAL16", "GVALX8", "GVALX16",
                         "GREF8", "GREF16", "GREFX8", "GREFX16"} -> GlobalNames
      [] ins.opcode = "CALL" -> Scenes
      [] OTHER -> <<>>

IndexesTable(ins) ==
    ins.opcode \in {"VAL8", "VAL16", "VALX8", "VALX16", "REF8", "REF16", "REFX8",
                    "REFX16", "GVAL8", "GVAL16", "GVALX8", "GVALX16", "GREF8",
                    "GREF16", "GREFX8", "GREFX16", "CALL"}

\* C22: make_statements never reads a table outside its bounds: an
\* instruction whose operand is no index of the table it names is never
\* executed to completion, and no out-of-range access happens.
C22_TableReadsInBounds ==
    /\ estatus # "ub"
    /\ \A k \in 1..epc :
          IndexesTable(eslice[k]) =>
              (eslice[k].operand >= 0 /\ eslice[k].operand < Len(TableOf(eslice[k])))

-----------------------------------------------------------------------------
(* Reads of decode_script (Spec) *)

\* the cursor is at a dialect-A CALL whose operand byte is the last byte of
\* the script and has the top bit set
AtLongCallWithoutSecondByte ==
    /\ Looping
    /\ fe10
    /\ OpcodeOf(bytes[i + 1]) = "CALL"
    /\ i + 2 = Len(bytes)
    /\ bytes[i + 2] >= 128

\* C23: in both dialects decode_script reads no byte at an index >= the
\* script length, the second operand byte of a dialect-A extended CALL
\* included; such a CALL with no byte after its first operand byte ends in
\* the truncated-operand error.
C23_DecodeReadsInsideScript ==
    /\ [](maxRead < Len(bytes))
    /\ [][AtLongCallWithoutSecondByte => dstatus' = "err_operand"]_vars

\* a dialect-A extended CALL whose second operand byte is the last byte of
\* the script was decoded
C23_Witness ==
    /\ dstatus = "done"
    /\ fe10
    /\ maxRead = Len(bytes) - 1
    /\ result # <<>>
    /\ Last(result).opcode = "CALL"
    /\ Last(result).location + 3 = Len(bytes)
    /\ bytes[Last(result).location + 2] >= 128

-----------------------------------------------------------------------------
(* Termination of slice_script (SpecSliceFair) *)

\* the number of slice points not yet consumed, plus one while the scan has
\* not reached the end of the script
SliceWork == Cardinality(sliceLeft) + (IF scrIt = Len(script) THEN 0 ELSE 1)

\* C24: slice_script returns for every script and every set of slice
\* points; every pass of its loop consumes one slice point or, when none is
\* left, stores the remaining instructions as the final slice and moves the
\* scan to the end.
C24_SliceScriptTerminates ==
    /\ <>(sstatus = "done")
    /\ [][(sstatus = "run" /\ scrIt # Len(script))
             => /\ SliceWork' < SliceWork
                /\ scrIt' >= scrIt
                /\ IF sliceLeft # {}
                   THEN Cardinality(sliceLeft') = Cardinality(sliceLeft) - 1
                   ELSE /\ scrIt' = Len(script)
                        /\ Last(slices').from = scrIt
                        /\ Last(slices').to = Len(script)]_vars

\* slice_script returned after a pass that found its slice point at or below
\* the current instruction (an empty slice), with a jump to offset 0 and a
\* jump past the last instruction in the script
C24_Witness ==
    /\ sstatus = "done"
    /\ \E k \in 1..Len(slices) : slices[k].from = slices[k].to
    /\ \E k \in 1..Len(script) : isJump(script[k].opcode) /\ script[k].operand = 0
    /\ \E k \in 1..Len(script) :
          isJump(script[k].opcode) /\ script[k].operand > Last(script).location

-----------------------------------------------------------------------------
(* Termination and index bounds of convert_bks_to_fake_logic               *)
(* (SpecRewriteFair)                                                       *)

\* the 0-based indices the while loop and the two assignments after it use,
\* with j the loop variable on entry: slice[j] in the loop test once
\* j < slice.size() holds, slice[j-1] and slice[j] in the swap, slice[j-1]
\* after the loop
RECURSIVE SweepIndices(_, _, _)
SweepIndices(s, j, target) ==
    IF j < Len(s)
    THEN IF s[j + 1].location # target
         THEN {j - 1, j} \cup SweepIndices(Swap(s, j - 1, j), j + 1, target)
         ELSE {j - 1, j}
    ELSE {j - 1}

\* the instructions of s as a set
Members(s) == {s[k] : k \in 1..Len(s)}

\* C25: convert_bks_to_fake_logic returns for every slice; every index a
\* pass uses lies in 0..size-1, whether the BKY/BKN is first, last, targets
\* the next instruction or targets nothing in the slice; the instruction a
\* pass overwrites is the BKY/BKN it is processing, and no other changes.
C25_RewriteTerminatesInBounds ==
    /\ <>(rstatus = "done")
    /\ [][(rstatus = "run" /\ ri < Len(slice))
             => /\ ri' > ri
                /\ ri >= 0
                /\ slice[ri + 1].opcode \in {"BKY", "BKN"} =>
                      LET bk == slice[ri + 1]
                          fake == [location |-> bk.location,
                                   opcode |-> IF bk.opcode = "BKN" THEN "FAKE_LAND"
                                              ELSE "FAKE_LORR",
                                   operand |-> 0]
                      IN /\ \A x \in SweepIndices(slice, ri + 1, bk.operand) :
                                0 <= x /\ x < Len(slice)
                         /\ Len(slice') = Len(slice)
                         /\ Members(slice') = (Members(slice) \ {bk}) \cup {fake}
                /\ slice[ri + 1].opcode \notin {"BKY", "BKN"} => slice' = slice]_vars

\* a returned slice that began with a BKY targeting the instruction right
\* after it and ended with a BKN whose target is no instruction of the slice
C25_Witness ==
    /\ rstatus = "done"
    /\ Len(slice0) >= 3
    /\ slice0[1].opcode = "BKY"
    /\ slice0[1].operand = slice0[2].location
    /\ Last(slice0).opcode = "BKN"
    /\ \A m \in 1..Len(slice0) : slice0[m].location # Last(slice0).operand
    /\ slice[1].opcode = "FAKE_LORR"
    /\ Last(slice).opcode = "FAKE_LAND"

=============================================================================
